---- MODULE Spec2Model ----
(***************************************************************************)
(* Model of EyeTracker (src/Virtual_Eye_Emulator_2.py): the wink / blink   *)
(* state machine, the AM oscillator, the session recorder and the run loop *)
(* that drives them once per camera frame.                                 *)
(*                                                                         *)
(* Units.  EAR values are in thousandths (0.18 -> 180).  Wall-clock time   *)
(* is in units of 1/150 s, the coarsest unit in which both 1/30 s (5) and  *)
(* 0.04 s (6) are whole numbers; 60 s is 9000.                             *)
(***************************************************************************)
EXTENDS Integers, Sequences, FiniteSets, TLC

\* ---- program constants (EyeTracker.__init__) ----
blink_threshold == 200
wink_threshold == 180
consecutive_frames == 2
history_size == 3
max_recording_time == 9000
frame_interval == 5
AM_FRAME_INTERVAL == 6
\* process_frame's defaults for a frame without a face
default_ear == 300
\* draw_virtual_eyes: box height limits and the EAR that maps to max_height
max_height == 100
min_height == 8
full_open_ear == 350

\* am_phase values are in tenths (-0.8 -> -8)
am_phase_step == 8
\* openness step of one accepted AM tick, and the top of its range
am_step == 2
am_max == 100
\* clock units in one second (the file name carries the start time to the second)
ticks_per_second == 150
\* detect_eye_movement thresholds, in hundredths of the frame
gaze_low == 42
gaze_high == 58
gaze_centre == 50
\* get_eyebrow_height: elevation = clamp((distance - 20) / 40, 0, 1); elevations
\* are in fortieths (0.5 -> 20), exact for a distance in whole pixels
brow_floor == 20
brow_span == 40
default_brow == 20
\* draw_diagonal_rectangle: the cut is int(brow_height * 30)
max_diagonal_cut == 30
\* draw_virtual_eyes (not for_video): base positions, movement multipliers and
\* the constant box width
base_left_x == 150
base_right_x == 300
base_y == 200
movement_multiplier_x == 120
movement_multiplier_y == 80
rect_width == 80

\* ---- bounds of the model ----
\* largest value a run counter (wink or blink) may reach
MaxCount == 6
\* largest blink total
MaxTotal == 2
\* the run loop reads frames until the clock passes MaxTime
MaxTime == 36
\* the recorder harness runs until the clock passes MaxRecTime after a session start
MaxRecTime == 20
\* most recording sessions started in one behaviour
MaxSessions == 2
\* most accepted AM ticks counted in the oscillator harness
MaxTicks == 210
\* most gaze samples fed to detect_eye_movement in the process_frame harness
MaxSamples == 4

\* EAR inputs: below the wink threshold, on it, on the blink threshold, open
EarValues == {100, 180, 200, 300}
\* normalised gaze samples (hundredths)
GazeValues == {<<30, 50>>, <<42, 58>>, <<70, 30>>, <<50, 70>>}
\* mean(eyebrow_y) - mean(eye_y) in pixels (negative: the brow is above the
\* eye), around the two ends of the 20..60 px range
BrowOffsets == {-80, -61, -60, -59, -40, -30, -21, -20, -19, 0, 30}
Modes == {"RECTANGULOS", "REDONDEADOS", "AM"}
Keys == {"none", "q", "r", "c", "m", "g", "p"}
\* None, for the fields that hold a time or a file name
None == -1

VARIABLES
    pc,                     \* position of run_virtual_eye_tracker in its loop
    now,                    \* time.time()
    left_ear, right_ear,    \* EARs of the current frame / last evaluation
    left_brow_height, right_brow_height,    \* brow elevations of the current frame
    face,                   \* results.multi_face_landmarks / client_detected
    gaze_direction, gaze_pos,
    eye_state,              \* value returned by the last detect_eye_state
    left_height, right_height,      \* box heights of the last draw
    left_rect, right_rect,          \* the polygons of the last draw (RECTANGULOS)
    left_blink_counter, right_blink_counter,
    left_blink_total, right_blink_total,
    left_wink_counter, right_wink_counter,
    both_eyes_closed, left_winking, right_winking,
    eye_movement_history,
    visualization_mode,
    is_recording, animation_frames, video_frames,
    recording_start_time, last_frame_time, recording_filename,
    json_writes, mp4_writes,        \* the artifact writes attempted, in order
    am_openness, am_open_dir, am_last_update, am_phase,
    \* history (observers, not program state)
    left_only_frames, right_only_frames,  \* consecutive frames closed on one side only
    left_only_evals, right_only_evals,    \* the same, counted per evaluation
    left_low_frames, right_low_frames,    \* consecutive frames with EAR < blink_threshold
    left_low_seen, right_low_seen,        \* the same, frames without a face skipped
    am_ticks,                             \* accepted AM ticks so far
    am_tick_face,                         \* the last accepted tick had a face
    sessions,                             \* recording sessions started so far
    left_brow_offset, right_brow_offset,  \* eyebrow_y - eye_y of the last measurement
    gaze_fed,                             \* every sample pushed to the window so far
    gaze_cleared,                         \* Len(gaze_fed) at the last CLEAR_HISTORY
    mode_cycles,                          \* 'm' keys handled so far
    last_key,                             \* the key handled last
    last_call, was_recording              \* the last direct call of an operation, and
                                          \* is_recording as it was before that call

winkVars == <<left_wink_counter, right_wink_counter,
              both_eyes_closed, left_winking, right_winking>>
blinkVars == <<left_blink_counter, right_blink_counter,
               left_blink_total, right_blink_total>>
frameVars == <<left_ear, right_ear, face, gaze_direction, gaze_pos,
               left_brow_height, right_brow_height>>
drawVars == <<left_height, right_height, left_rect, right_rect>>
\* the smoothing window, with the history of what was pushed to it
gazeVars == <<eye_movement_history, gaze_fed, gaze_cleared>>
recVars == <<is_recording, animation_frames, video_frames, recording_start_time,
             last_frame_time, recording_filename, json_writes, mp4_writes, sessions>>
amVars == <<am_openness, am_open_dir, am_last_update, am_phase, am_ticks, am_tick_face>>
evalObs == <<left_only_evals, right_only_evals>>
frameObs == <<left_only_frames, right_only_frames, left_low_frames,
              right_low_frames, left_low_seen, right_low_seen,
              left_brow_offset, right_brow_offset>>
callObs == <<last_call, was_recording>>
keyObs == <<mode_cycles, last_key>>
vars == <<pc, now, frameVars, eye_state, drawVars, blinkVars, winkVars, gazeVars,
          visualization_mode, recVars, amVars, evalObs, frameObs, callObs, keyObs>>

Max(a, b) == IF a >= b THEN a ELSE b
Min(a, b) == IF a <= b THEN a ELSE b
\* ---- detect_eye_state ----
\* The fields detect_eye_state reads and writes, as one record; .ret is the
\* string it returns.
WinkFields == [left_wink_counter |-> left_wink_counter,
               right_wink_counter |-> right_wink_counter,
               both_eyes_closed |-> both_eyes_closed,
               left_winking |-> left_winking,
               right_winking |-> right_winking,
               ret |-> eye_state]

Closed(ear) == ear < wink_threshold

\* Mutant of Debounced: one evaluation more than consecutive_frames is needed.
Debounced_strict(counter) == counter > consecutive_frames
Debounced(counter) == counter >= consecutive_frames

\* Mutant of SetBothClosed: the wink flags are left as they were.
SetBothClosed_keepsWinks(s) ==
    [s EXCEPT !.both_eyes_closed = TRUE, !.ret = "AMBOS_CERRADOS"]

SetBothClosed(s) ==
    [s EXCEPT !.both_eyes_closed = TRUE, !.left_winking = FALSE,
              !.right_winking = FALSE, !.ret = "AMBOS_CERRADOS"]
\* Mutant of SetLeftWink: both_eyes_closed is not cleared.
SetLeftWink_keepsBothClosed(s) ==
    [s EXCEPT !.left_winking = TRUE, !.right_winking = FALSE,
              !.ret = "GUINANDO_IZQUIERDO"]
SetLeftWink(s) ==
    [s EXCEPT !.left_winking = TRUE, !.right_winking = FALSE,
              !.both_eyes_closed = FALSE, !.ret = "GUINANDO_IZQUIERDO"]
SetRightWink(s) ==
    [s EXCEPT !.right_winking = TRUE, !.left_winking = FALSE,
              !.both_eyes_closed = FALSE, !.ret = "GUINANDO_DERECHO"]
SetBothOpen(s) ==
    [s EXCEPT !.left_winking = FALSE, !.right_winking = FALSE,
              !.both_eyes_closed = FALSE, !.ret = "AMBOS_ABIERTOS"]

\* Mutant of CountLeft: a closure of the right eye alone leaves the left
\* counter as it is.
CountLeft_keepsOnRightWink(s, left_closed, right_closed) ==
    IF left_closed /\ ~right_closed
    THEN [s EXCEPT !.left_wink_counter = @ + 1]
    ELSE IF right_closed THEN s
    ELSE [s EXCEPT !.left_wink_counter = 0]
\* The if / elif / else on the left eye: the counter moves only when the left
\* eye alone is closed; both closed is handled before this is reached.
CountLeft(s, left_closed, right_closed) ==
    IF left_closed /\ ~right_closed
    THEN [s EXCEPT !.left_wink_counter = @ + 1]
    ELSE [s EXCEPT !.left_wink_counter = 0]
CountRight(s, left_closed, right_closed) ==
    IF right_closed /\ ~left_closed
    THEN [s EXCEPT !.right_wink_counter = @ + 1]
    ELSE [s EXCEPT !.right_wink_counter = 0]

\* detect_eye_state(left_ear, right_ear) on the fields s: the fields after the
\* call.  The both-closed branch returns before either counter is touched.
DetectEyeState(s, le, re) ==
    LET left_closed == Closed(le)
        right_closed == Closed(re)
        s1 == CountLeft(s, left_closed, right_closed)
        s2 == CountRight(s1, left_closed, right_closed)
    IN  IF left_closed /\ right_closed THEN SetBothClosed(s)
        ELSE IF left_closed /\ ~right_closed /\ Debounced(s1.left_wink_counter)
        THEN SetLeftWink(s1)
        ELSE IF right_closed /\ ~left_closed /\ Debounced(s2.right_wink_counter)
        THEN SetRightWink(s2)
        ELSE IF ~left_closed /\ ~right_closed THEN SetBothOpen(s2)
        ELSE [s2 EXCEPT !.ret = "NORMAL"]

\* The fields of s written back to the object, the return value to eye_state.
StoreWinkFields(s) ==
    /\ left_wink_counter' = s.left_wink_counter
    /\ right_wink_counter' = s.right_wink_counter
    /\ both_eyes_closed' = s.both_eyes_closed
    /\ left_winking' = s.left_winking
    /\ right_winking' = s.right_winking
    /\ eye_state' = s.ret

LeftOnly(le, re) == le < wink_threshold /\ re >= wink_threshold
RightOnly(le, re) == re < wink_threshold /\ le >= wink_threshold

\* The per-evaluation observers after one more evaluation with the EARs le, re.
ObserveEval(le, re) ==
    /\ left_only_evals' = IF LeftOnly(le, re) THEN left_only_evals + 1 ELSE 0
    /\ right_only_evals' = IF RightOnly(le, re) THEN right_only_evals + 1 ELSE 0

\* ---- process_frame: blink counting ----
\* Mutant of BlinkStep: the run must be longer than consecutive_frames.
BlinkStep_strict(counter, total, ear) ==
    IF ear < blink_threshold
    THEN <<counter + 1, total>>
    ELSE <<0, IF counter > consecutive_frames THEN total + 1 ELSE total>>
\* One eye's (run counter, total) after a frame with a face and EAR ear.
BlinkStep(counter, total, ear) ==
    IF ear < blink_threshold
    THEN <<counter + 1, total>>
    ELSE <<0, IF counter >= consecutive_frames THEN total + 1 ELSE total>>

\* ---- detect_eye_movement ----
\* Mutant of PushHistory: a full window drops the new sample, not the oldest.
PushHistory_dropsNewest(h, g) ==
    LET h1 == Append(h, g)
    IN  IF Len(h1) > history_size THEN SubSeq(h1, 1, history_size) ELSE h1
\* The smoothing window after the sample g is pushed.
PushHistory(h, g) ==
    LET h1 == Append(h, g)
    IN  IF Len(h1) > history_size THEN Tail(h1) ELSE h1

RECURSIVE SumX(_)
SumX(h) == IF h = <<>> THEN 0 ELSE Head(h)[1] + SumX(Tail(h))
RECURSIVE SumY(_)
SumY(h) == IF h = <<>> THEN 0 ELSE Head(h)[2] + SumY(Tail(h))

\* Mutant of Direction: the thresholds themselves count as left / right, up / down.
Direction_nonStrict(h) ==
    LET n == Len(h)
        horizontal == IF SumX(h) <= gaze_low * n THEN "IZQUIERDA"
                      ELSE IF SumX(h) >= gaze_high * n THEN "DERECHA"
                      ELSE "CENTRO"
        vertical == IF SumY(h) <= gaze_low * n THEN "_ARRIBA"
                    ELSE IF SumY(h) >= gaze_high * n THEN "_ABAJO"
                    ELSE ""
    IN  horizontal \o vertical
\* The label for the window h (not empty): the mean is compared with the
\* thresholds as sum against threshold * len, which is exact.
Direction(h) ==
    LET n == Len(h)
        horizontal == IF SumX(h) < gaze_low * n THEN "IZQUIERDA"
                      ELSE IF SumX(h) > gaze_high * n THEN "DERECHA"
                      ELSE "CENTRO"
        vertical == IF SumY(h) < gaze_low * n THEN "_ARRIBA"
                    ELSE IF SumY(h) > gaze_high * n THEN "_ABAJO"
                    ELSE ""
    IN  horizontal \o vertical

\* The mean of the window, as <<sum of x, sum of y, samples>>.
MeanOf(h) == <<SumX(h), SumY(h), Len(h)>>
DefaultGaze == <<gaze_centre, gaze_centre, 1>>

\* ---- draw_virtual_eyes: box heights ----
BaseHeight(ear) == Max(min_height, Min(max_height, (ear * max_height) \div full_open_ear))

\* <<left_height, right_height>> for the fields s after this call's evaluation.
BoxHeights(s, le, re) ==
    IF s.both_eyes_closed \/ s.ret = "AMBOS_CERRADOS"
    THEN <<BaseHeight(le) \div 2, BaseHeight(re) \div 2>>
    ELSE IF s.left_winking \/ s.ret = "GUINANDO_IZQUIERDO"
    THEN <<BaseHeight(le) \div 2, BaseHeight(re)>>
    ELSE IF s.right_winking \/ s.ret = "GUINANDO_DERECHO"
    THEN <<BaseHeight(le), BaseHeight(re) \div 2>>
    ELSE <<BaseHeight(le), BaseHeight(re)>>

\* ---- get_eyebrow_height ----
Abs(x) == IF x < 0 THEN -x ELSE x

\* Mutant of GetEyebrowHeight: the elevation is not clamped at 0.
GetEyebrowHeight_noFloor(dy) == Min(brow_span, Abs(dy) - brow_floor)
\* Mutant of GetEyebrowHeight: the signed offset is used as the distance.
GetEyebrowHeight_signed(dy) == Max(0, Min(brow_span, dy - brow_floor))
\* The elevation (fortieths) for dy = mean(eyebrow_y) - mean(eye_y): the
\* distance is the absolute value of the offset.
GetEyebrowHeight(dy) == Max(0, Min(brow_span, Abs(dy) - brow_floor))

\* ---- draw_virtual_eyes / draw_diagonal_rectangle: the polygons ----
\* int(base + (gaze - 0.5) * multiplier) for the gaze coordinate sum / (100 * n);
\* the value is positive, so int() is the floor.
VirtualCoord(base, sum, n, multiplier) ==
    (base * 100 * n + (sum - gaze_centre * n) * multiplier) \div (100 * n)

\* Mutant of DiagonalCut: the cut is as deep as for twice the elevation.
DiagonalCut_doubled(brow_height) == (2 * brow_height * max_diagonal_cut) \div brow_span
\* diagonal_cut = int(brow_height * 30)
DiagonalCut(brow_height) == (brow_height * max_diagonal_cut) \div brow_span

\* What is drawn for one eye in AM mode: one wave for both eyes, no polygon.
NoRect == [mode |-> "AM", cx |-> 0, cy |-> 0, x1 |-> 0, y1 |-> 0, x2 |-> 0, y2 |-> 0,
           diagonal_cut |-> 0, points |-> <<>>]

\* The polygon of one eye: centre (cx, cy), box of rect_width by height, the
\* two top corners moved by the cut, mirrored between the eyes.
DiagonalRect(mode, cx, cy, height, brow_height, is_left_eye) ==
    LET x1 == cx - rect_width \div 2
        y1 == cy - height \div 2
        x2 == cx + rect_width \div 2
        y2 == cy + height \div 2
        cut == DiagonalCut(brow_height)
    IN  [mode |-> mode, cx |-> cx, cy |-> cy,
         x1 |-> x1, y1 |-> y1, x2 |-> x2, y2 |-> y2, diagonal_cut |-> cut,
         points |-> IF is_left_eye
                    THEN << <<x1, y2>>, <<x2, y2>>, <<x2 - cut, y1>>, <<x1, y1 + cut>> >>
                    ELSE << <<x1, y2>>, <<x2, y2>>, <<x2, y1 + cut>>, <<x1 + cut, y1>> >>]

\* <<left polygon, right polygon>> of one draw in the given mode.
EyeRects(mode, pos, heights, left_brow, right_brow) ==
    LET left_x == VirtualCoord(base_left_x, pos[1], pos[3], movement_multiplier_x)
        right_x == VirtualCoord(base_right_x, pos[1], pos[3], movement_multiplier_x)
        y == VirtualCoord(base_y, pos[2], pos[3], movement_multiplier_y)
    IN  IF mode = "AM" THEN <<NoRect, NoRect>>
        ELSE <<DiagonalRect(mode, left_x, y, heights[1], left_brow, TRUE),
               DiagonalRect(mode, right_x, y, heights[2], right_brow, FALSE)>>

\* ---- update_am_state ----
AmFields == [am_openness |-> am_openness, am_open_dir |-> am_open_dir,
             am_last_update |-> am_last_update, am_phase |-> am_phase]

LeftLabels == {"IZQUIERDA", "IZQUIERDA_ARRIBA", "IZQUIERDA_ABAJO"}
RightLabels == {"DERECHA", "DERECHA_ARRIBA", "DERECHA_ABAJO"}

\* Mutant of AmAccepted: every call is a tick.
AmAccepted_always(a, t) == TRUE
\* The gate at the top: the call is dropped unless AM_FRAME_INTERVAL has passed.
AmAccepted(a, t) == ~(t - a.am_last_update < AM_FRAME_INTERVAL)

\* Mutant of AmBreathe: the bound is tested on the unclamped value, so the
\* direction turns one tick late.
AmBreathe_turnsLate(a) ==
    LET raw == a.am_openness + a.am_open_dir * am_step
    IN  [a EXCEPT !.am_openness = Max(0, Min(am_max, raw)),
                  !.am_open_dir = IF raw < 0 \/ raw > am_max THEN (-1) * @ ELSE @]
\* Mutant of AmBreathe: the direction turns at the top only.
AmBreathe_noTurnAtZero(a) ==
    LET openness == Max(0, Min(am_max, a.am_openness + a.am_open_dir * am_step))
    IN  [a EXCEPT !.am_openness = openness,
                  !.am_open_dir = IF openness = am_max THEN (-1) * @ ELSE @]
\* Mutant of AmBreathe: the new openness is not clamped to [0, am_max].
AmBreathe_noClamp(a) ==
    LET openness == a.am_openness + a.am_open_dir * am_step
    IN  [a EXCEPT !.am_openness = openness,
                  !.am_open_dir = IF openness \in {0, am_max} THEN (-1) * @ ELSE @]
\* The "breathing" step of an accepted tick with a face.
AmBreathe(a) ==
    LET openness == Max(0, Min(am_max, a.am_openness + a.am_open_dir * am_step))
    IN  [a EXCEPT !.am_openness = openness,
                  !.am_open_dir = IF openness \in {0, am_max} THEN (-1) * @ ELSE @]

AmPhase(direction) ==
    IF direction \in LeftLabels THEN -am_phase_step
    ELSE IF direction \in RightLabels THEN am_phase_step
    ELSE 0

\* Mutant of UpdateAmState: a tick without a face also sets the phase to 0.
UpdateAmState_noFaceResetsPhase(a, client_detected, direction, t) ==
    IF ~AmAccepted(a, t) THEN a
    ELSE LET a1 == [a EXCEPT !.am_last_update = t]
         IN  IF ~client_detected THEN [a1 EXCEPT !.am_openness = 0, !.am_phase = 0]
             ELSE [AmBreathe(a1) EXCEPT !.am_phase = AmPhase(direction)]
\* update_am_state(client_detected, gaze_direction) at time t.
UpdateAmState(a, client_detected, direction, t) ==
    IF ~AmAccepted(a, t) THEN a
    ELSE LET a1 == [a EXCEPT !.am_last_update = t]
         IN  IF ~client_detected THEN [a1 EXCEPT !.am_openness = 0]
             ELSE [AmBreathe(a1) EXCEPT !.am_phase = AmPhase(direction)]

StoreAmFields(a, client_detected) ==
    /\ am_openness' = a.am_openness
    /\ am_open_dir' = a.am_open_dir
    /\ am_last_update' = a.am_last_update
    /\ am_phase' = a.am_phase
    /\ am_ticks' = IF a.am_last_update # am_last_update THEN am_ticks + 1 ELSE am_ticks
    /\ am_tick_face' = IF a.am_last_update # am_last_update THEN client_detected
                       ELSE am_tick_face

\* ---- the recorder: start_recording, stop_recording, capture_frame_for_recording ----
RecFields == [is_recording |-> is_recording,
              animation_frames |-> animation_frames,
              video_frames |-> video_frames,
              recording_start_time |-> recording_start_time,
              last_frame_time |-> last_frame_time,
              recording_filename |-> recording_filename,
              json_writes |-> json_writes,
              mp4_writes |-> mp4_writes,
              sessions |-> sessions]

\* Mutant of StartRecording: the log buffer is not emptied (stop_recording empties
\* only the video buffer).
StartRecording_keepsLog(r, t, d) ==
    IF ~r.is_recording
    THEN [r EXCEPT !.is_recording = TRUE,
                   !.video_frames = <<>>,
                   !.recording_start_time = t,
                   !.last_frame_time = t + d,
                   !.recording_filename = t \div ticks_per_second,
                   !.sessions = @ + 1]
    ELSE r
\* Mutant of StartRecording: a start while Recording restarts the clock.
StartRecording_restartsClock(r, t, d) ==
    IF ~r.is_recording
    THEN [r EXCEPT !.is_recording = TRUE,
                   !.animation_frames = <<>>,
                   !.video_frames = <<>>,
                   !.recording_start_time = t,
                   !.last_frame_time = t + d,
                   !.recording_filename = t \div ticks_per_second,
                   !.sessions = @ + 1]
    ELSE [r EXCEPT !.recording_start_time = t, !.last_frame_time = t + d]
\* start_recording at time t; the second time.time() reads t + d.  The file
\* name is the start time to the second.
StartRecording(r, t, d) ==
    IF ~r.is_recording
    THEN [r EXCEPT !.is_recording = TRUE,
                   !.animation_frames = <<>>,
                   !.video_frames = <<>>,
                   !.recording_start_time = t,
                   !.last_frame_time = t + d,
                   !.recording_filename = t \div ticks_per_second,
                   !.sessions = @ + 1]
    ELSE r

\* Mutant of HasFrames: the artifacts are written whatever the buffers hold.
HasFrames_always(r) == TRUE
\* The two buffers hold something to save.
HasFrames(r) == Len(r.animation_frames) > 0 /\ Len(r.video_frames) > 0

\* The JSON write of stop_recording, attempted with outcome ok (the fps field
\* is left out).
JsonWrite(r, t, ok) ==
    [file |-> r.recording_filename, session |-> r.sessions,
     duration |-> t - r.recording_start_time,
     total_frames |-> Len(r.animation_frames),
     frames |-> r.animation_frames, ok |-> ok]

\* The MP4 write: every buffered frame goes to the writer.
Mp4Write(r, ok) ==
    [file |-> r.recording_filename, session |-> r.sessions,
     frames |-> r.video_frames, ok |-> ok]

\* Mutant of StopRecording: a failed log write ends the flush.
StopRecording_stopsAtLogFailure(r, t, json_ok, mp4_ok) ==
    IF r.is_recording
    THEN [r EXCEPT !.is_recording = FALSE,
                   !.json_writes = IF HasFrames(r) THEN Append(@, JsonWrite(r, t, json_ok)) ELSE @,
                   !.mp4_writes = IF HasFrames(r) /\ json_ok
                                  THEN Append(@, Mp4Write(r, mp4_ok)) ELSE @,
                   !.video_frames = <<>>,
                   !.recording_filename = None]
    ELSE r
\* stop_recording at time t; json_ok, mp4_ok: whether each write succeeds (a
\* failure is caught and printed).
StopRecording(r, t, json_ok, mp4_ok) ==
    IF r.is_recording
    THEN [r EXCEPT !.is_recording = FALSE,
                   !.json_writes = IF HasFrames(r) THEN Append(@, JsonWrite(r, t, json_ok)) ELSE @,
                   !.mp4_writes = IF HasFrames(r) THEN Append(@, Mp4Write(r, mp4_ok)) ELSE @,
                   !.video_frames = <<>>,
                   !.recording_filename = None]
    ELSE r

\* Mutant of OverLimit: the limit is measured from the last capture.
OverLimit_sinceLastCapture(r, t) == t - r.last_frame_time > max_recording_time
\* Mutant of OverLimit: the session runs one capture interval past the limit.
OverLimit_oneIntervalLate(r, t) ==
    t - r.recording_start_time > max_recording_time + frame_interval
\* The time limit test of capture_frame_for_recording.
OverLimit(r, t) == t - r.recording_start_time > max_recording_time
\* Mutant of CaptureDue: the interval is measured from the session start.
CaptureDue_sinceStart(r, t) == t - r.recording_start_time >= frame_interval
\* The 30 FPS gate.
CaptureDue(r, t) == t - r.last_frame_time >= frame_interval

\* frame_data, and the video frame with the "REC <elapsed>s" overlay.  The
\* field session is history: the number of the session that took the sample,
\* which the code does not store.
FrameData(r, t, mode, le, re, direction, pos) ==
    [timestamp |-> t - r.recording_start_time, mode |-> mode,
     left_ear |-> le, right_ear |-> re, gaze |-> pos, direction |-> direction,
     session |-> r.sessions]
VideoFrame(r, t) == [elapsed |-> t - r.recording_start_time, session |-> r.sessions]

\* Mutant of CaptureFrame: the call does not test is_recording.
CaptureFrame_whileIdle(r, t, mode, le, re, direction, pos, json_ok, mp4_ok) ==
    IF r.is_recording /\ OverLimit(r, t) THEN StopRecording(r, t, json_ok, mp4_ok)
    ELSE IF CaptureDue(r, t)
    THEN [r EXCEPT !.animation_frames = Append(@, FrameData(r, t, mode, le, re, direction, pos)),
                   !.video_frames = Append(@, VideoFrame(r, t)),
                   !.last_frame_time = t]
    ELSE r
\* capture_frame_for_recording at time t.
CaptureFrame(r, t, mode, le, re, direction, pos, json_ok, mp4_ok) ==
    IF ~r.is_recording THEN r
    ELSE IF OverLimit(r, t) THEN StopRecording(r, t, json_ok, mp4_ok)
    ELSE IF CaptureDue(r, t)
    THEN [r EXCEPT !.animation_frames = Append(@, FrameData(r, t, mode, le, re, direction, pos)),
                   !.video_frames = Append(@, VideoFrame(r, t)),
                   !.last_frame_time = t]
    ELSE r

StoreRecFields(r) ==
    /\ is_recording' = r.is_recording
    /\ animation_frames' = r.animation_frames
    /\ video_frames' = r.video_frames
    /\ recording_start_time' = r.recording_start_time
    /\ last_frame_time' = r.last_frame_time
    /\ recording_filename' = r.recording_filename
    /\ json_writes' = r.json_writes
    /\ mp4_writes' = r.mp4_writes
    /\ sessions' = r.sessions

\* ---- the mode key ----
\* Mutant of NextMode: REDONDEADOS is skipped.
NextMode_skipsRounded(mode) ==
    IF mode = "RECTANGULOS" THEN "AM" ELSE "RECTANGULOS"
NextMode(mode) ==
    IF mode = "RECTANGULOS" THEN "REDONDEADOS"
    ELSE IF mode = "REDONDEADOS" THEN "AM"
    ELSE "RECTANGULOS"

\* ---- initial state: EyeTracker.__init__, then the top of the run loop ----
Init ==
    /\ pc = "frame"
    /\ now = 0
    /\ left_ear = default_ear /\ right_ear = default_ear /\ face = FALSE
    /\ gaze_direction = "NO_DETECTADO" /\ gaze_pos = DefaultGaze
    /\ eye_state = "NONE"
    /\ left_brow_height = default_brow /\ right_brow_height = default_brow
    /\ left_height = 0 /\ right_height = 0
    /\ left_rect = NoRect /\ right_rect = NoRect
    /\ left_blink_counter = 0 /\ right_blink_counter = 0
    /\ left_blink_total = 0 /\ right_blink_total = 0
    /\ left_wink_counter = 0 /\ right_wink_counter = 0
    /\ both_eyes_closed = FALSE /\ left_winking = FALSE /\ right_winking = FALSE
    /\ eye_movement_history = <<>>
    /\ visualization_mode = "RECTANGULOS"
    /\ is_recording = FALSE
    /\ animation_frames = <<>> /\ video_frames = <<>>
    /\ recording_start_time = None /\ last_frame_time = 0
    /\ recording_filename = None
    /\ json_writes = <<>> /\ mp4_writes = <<>>
    /\ am_openness = 0 /\ am_open_dir = 1 /\ am_last_update = 0 /\ am_phase = 0
    /\ left_only_frames = 0 /\ right_only_frames = 0
    /\ left_only_evals = 0 /\ right_only_evals = 0
    /\ left_low_frames = 0 /\ right_low_frames = 0
    /\ left_low_seen = 0 /\ right_low_seen = 0
    /\ am_ticks = 0 /\ am_tick_face = FALSE
    /\ sessions = 0
    /\ left_brow_offset = 0 /\ right_brow_offset = 0
    /\ gaze_fed = <<>> /\ gaze_cleared = 0
    /\ mode_cycles = 0 /\ last_key = "none"
    /\ last_call = "none" /\ was_recording = FALSE

\* ---- detect_eye_state called on its own, on any sequence of EAR pairs ----
CallDetectEyeState(le, re) ==
    LET s == DetectEyeState(WinkFields, le, re)
    IN  /\ s.left_wink_counter <= MaxCount
        /\ s.right_wink_counter <= MaxCount
        /\ StoreWinkFields(s)
        /\ left_ear' = le /\ right_ear' = re
        /\ ObserveEval(le, re)
        /\ UNCHANGED <<pc, now, face, gaze_direction, gaze_pos, left_brow_height,
                       right_brow_height, drawVars, blinkVars, gazeVars,
                       visualization_mode, recVars, amVars, frameObs, callObs, keyObs>>

NextDetect == \E le \in EarValues, re \in EarValues : CallDetectEyeState(le, re)

SpecDetect == Init /\ [][NextDetect]_vars

\* ---- run_virtual_eye_tracker: one loop iteration is five steps ----
\* process_frame: f says whether a face was found, le / re are its EARs, g its
\* normalised gaze sample, ldy / rdy the eyebrow offsets of the two eyes.  In
\* the loop cap.read() returns dt after the last frame.
\* Mutant of NoFaceFrame: a frame without a face ends the blink runs.
NoFaceFrame_endsRuns ==
    /\ left_ear' = default_ear /\ right_ear' = default_ear
    /\ gaze_direction' = "NO_DETECTADO"
    /\ gaze_pos' = DefaultGaze
    /\ left_brow_height' = default_brow /\ right_brow_height' = default_brow
    /\ left_blink_counter' = 0 /\ right_blink_counter' = 0
    /\ UNCHANGED <<winkVars, eye_state, evalObs, left_blink_total, right_blink_total,
                   gazeVars, left_brow_offset, right_brow_offset>>
\* process_frame when results.multi_face_landmarks is empty: the defaults are
\* returned and no field of the tracker is written.
NoFaceFrame ==
    /\ left_ear' = default_ear /\ right_ear' = default_ear
    /\ gaze_direction' = "NO_DETECTADO"
    /\ gaze_pos' = DefaultGaze
    /\ left_brow_height' = default_brow /\ right_brow_height' = default_brow
    /\ UNCHANGED <<winkVars, eye_state, evalObs, blinkVars, gazeVars,
                   left_brow_offset, right_brow_offset>>

ProcessFrameCall(f, le, re, g, ldy, rdy) ==
    /\ face' = f
    /\ IF f
       THEN LET s == DetectEyeState(WinkFields, le, re)
                lb == BlinkStep(left_blink_counter, left_blink_total, le)
                rb == BlinkStep(right_blink_counter, right_blink_total, re)
                h == PushHistory(eye_movement_history, g)
            IN  /\ lb[2] <= MaxTotal /\ rb[2] <= MaxTotal
                /\ StoreWinkFields(s)
                /\ ObserveEval(le, re)
                /\ left_blink_counter' = lb[1] /\ left_blink_total' = lb[2]
                /\ right_blink_counter' = rb[1] /\ right_blink_total' = rb[2]
                /\ eye_movement_history' = h
                /\ gaze_fed' = Append(gaze_fed, g)
                /\ gaze_cleared' = gaze_cleared
                /\ gaze_direction' = Direction(h)
                /\ gaze_pos' = MeanOf(h)
                /\ left_ear' = le /\ right_ear' = re
                /\ left_brow_height' = GetEyebrowHeight(ldy)
                /\ right_brow_height' = GetEyebrowHeight(rdy)
                /\ left_brow_offset' = ldy /\ right_brow_offset' = rdy
       ELSE NoFaceFrame
    /\ left_only_frames' = IF LeftOnly(left_ear', right_ear') THEN left_only_frames + 1 ELSE 0
    /\ right_only_frames' = IF RightOnly(left_ear', right_ear') THEN right_only_frames + 1 ELSE 0
    /\ left_low_frames' = IF left_ear' < blink_threshold THEN left_low_frames + 1 ELSE 0
    /\ right_low_frames' = IF right_ear' < blink_threshold THEN right_low_frames + 1 ELSE 0
    /\ left_low_seen' = IF ~f THEN left_low_seen
                        ELSE IF le < blink_threshold THEN left_low_seen + 1 ELSE 0
    /\ right_low_seen' = IF ~f THEN right_low_seen
                         ELSE IF re < blink_threshold THEN right_low_seen + 1 ELSE 0
    /\ UNCHANGED <<drawVars, visualization_mode, recVars, amVars, keyObs>>

ProcessFrame(f, le, re, g, ldy, rdy, dt) ==
    /\ pc = "frame"
    /\ now + dt <= MaxTime
    /\ now' = now + dt
    /\ ProcessFrameCall(f, le, re, g, ldy, rdy)
    /\ pc' = "am"
    /\ UNCHANGED callObs

\* client_detected = (gaze_direction != "NO_DETECTADO"); update_am_state.
UpdateAmStateStep ==
    /\ pc = "am"
    /\ StoreAmFields(UpdateAmState(AmFields, gaze_direction # "NO_DETECTADO",
                                   gaze_direction, now),
                     gaze_direction # "NO_DETECTADO")
    /\ pc' = "draw"
    /\ UNCHANGED <<now, frameVars, eye_state, drawVars, blinkVars, winkVars, gazeVars,
                   visualization_mode, recVars, evalObs, frameObs, callObs, keyObs>>

\* draw_virtual_eyes(left_ear, right_ear, gaze_pos, left_brow_height,
\* right_brow_height): it evaluates detect_eye_state and sizes the two boxes.
DrawVirtualEyesCall(le, re, pos, left_brow, right_brow) ==
    /\ LET s == DetectEyeState(WinkFields, le, re)
           hs == BoxHeights(s, le, re)
           rects == EyeRects(visualization_mode, pos, hs, left_brow, right_brow)
       IN  /\ StoreWinkFields(s)
           /\ left_height' = hs[1] /\ right_height' = hs[2]
           /\ left_rect' = rects[1] /\ right_rect' = rects[2]
    /\ ObserveEval(le, re)

\* draw_virtual_eyes in the loop, on the values process_frame returned.
DrawVirtualEyes ==
    /\ pc = "draw"
    /\ DrawVirtualEyesCall(left_ear, right_ear, gaze_pos, left_brow_height,
                           right_brow_height)
    /\ pc' = "capture"
    /\ UNCHANGED <<now, frameVars, blinkVars, gazeVars, visualization_mode, recVars,
                   amVars, frameObs, callObs, keyObs>>

\* capture_frame_for_recording on the frame just drawn.
CaptureStep(json_ok, mp4_ok) ==
    /\ pc = "capture"
    /\ StoreRecFields(CaptureFrame(RecFields, now, visualization_mode, left_ear, right_ear,
                                   gaze_direction, gaze_pos, json_ok, mp4_ok))
    /\ pc' = "key"
    /\ UNCHANGED <<now, frameVars, eye_state, drawVars, blinkVars, winkVars, gazeVars,
                   visualization_mode, amVars, evalObs, frameObs, callObs, keyObs>>

\* The 'c' key: eye_movement_history.clear().
ClearHistory ==
    /\ eye_movement_history' = <<>>
    /\ gaze_cleared' = Len(gaze_fed)
    /\ gaze_fed' = gaze_fed

\* Mutant of ResetCounters: the blink runs in progress are dropped too.
ResetCounters_endsRuns ==
    /\ left_blink_total' = 0 /\ right_blink_total' = 0
    /\ left_blink_counter' = 0 /\ right_blink_counter' = 0
\* The 'r' key: both blink totals are set to 0.
ResetCounters ==
    /\ left_blink_total' = 0 /\ right_blink_total' = 0
    /\ UNCHANGED <<left_blink_counter, right_blink_counter>>

\* cv2.waitKey and the key handlers; 'q' leaves the loop.
HandleKey(key, json_ok, mp4_ok) ==
    /\ pc = "key"
    /\ pc' = IF key = "q" THEN "done" ELSE "frame"
    /\ last_key' = key
    /\ IF key = "r" THEN ResetCounters ELSE UNCHANGED blinkVars
    /\ IF key = "c" THEN ClearHistory ELSE UNCHANGED gazeVars
    /\ mode_cycles' = IF key = "m" THEN mode_cycles + 1 ELSE mode_cycles
    /\ visualization_mode' = IF key = "m" THEN NextMode(visualization_mode)
                             ELSE visualization_mode
    /\ IF key = "g"
       THEN /\ is_recording \/ sessions < MaxSessions
            /\ StoreRecFields(StartRecording(RecFields, now, 0))
       ELSE IF key = "p"
       THEN StoreRecFields(StopRecording(RecFields, now, json_ok, mp4_ok))
       ELSE UNCHANGED recVars
    /\ UNCHANGED <<now, frameVars, eye_state, drawVars, winkVars, amVars, evalObs,
                   frameObs, callObs>>

\* The run loop in an environment: which frames arrive, how far apart, which
\* keys are pressed and which artifact writes succeed.
Loop(Faces, Ears, Gazes, Brows, Dts, KeySet, Oks) ==
    \/ \E f \in Faces, le \in Ears, re \in Ears, g \in Gazes,
          ldy \in Brows, rdy \in Brows, dt \in Dts :
          ProcessFrame(f, le, re, g, ldy, rdy, dt)
    \/ UpdateAmStateStep
    \/ DrawVirtualEyes
    \/ \E json_ok \in Oks, mp4_ok \in Oks : CaptureStep(json_ok, mp4_ok)
    \/ \E key \in KeySet, json_ok \in Oks, mp4_ok \in Oks : HandleKey(key, json_ok, mp4_ok)

\* Frames 40 ms apart, with and without a face, every EAR pair, a centred
\* gaze; the blink totals may be reset; nothing is recorded.
NextFrames == Loop(BOOLEAN, EarValues, {<<gaze_centre, gaze_centre>>}, {-30},
                   {AM_FRAME_INTERVAL}, {"none", "r"}, {TRUE})

SpecFrames == Init /\ [][NextFrames]_vars

\* Frames 40 ms apart with and without a face, open eyes, a centred gaze, and
\* every key, 'q' included; the artifact writes succeed.
NextKeys == Loop(BOOLEAN, {default_ear}, {<<gaze_centre, gaze_centre>>}, {-30},
                 {AM_FRAME_INTERVAL}, Keys, {TRUE})

SpecKeys == Init /\ [][NextKeys]_vars

\* ---- the operations called on their own ----
\* The clock moves on by dt between two calls.
Advance(dt) ==
    /\ now' = now + dt
    /\ last_call' = "none"
    /\ UNCHANGED <<pc, frameVars, eye_state, drawVars, blinkVars, winkVars, gazeVars,
                   visualization_mode, recVars, amVars, evalObs, frameObs, was_recording,
                   keyObs>>

\* process_frame and the 'c' key on their own: at most MaxSamples frames with a
\* face, any number without.
CallProcessFrame(f, le, re, g, ldy, rdy) ==
    /\ Len(gaze_fed) + (IF f THEN 1 ELSE 0) <= MaxSamples
    /\ ProcessFrameCall(f, le, re, g, ldy, rdy)
    /\ last_call' = "process_frame"
    /\ UNCHANGED <<pc, now, was_recording>>

CallClearHistory ==
    /\ ClearHistory
    /\ last_call' = "clear_history"
    /\ UNCHANGED <<pc, now, frameVars, eye_state, drawVars, blinkVars, winkVars,
                   visualization_mode, recVars, amVars, evalObs, frameObs, was_recording,
                   keyObs>>

\* Frames with a face (left eye closed or open, every gaze sample, a raised
\* left brow), frames without, and CLEAR_HISTORY, in any order.
NextGaze ==
    \/ \E f \in BOOLEAN, le \in {100, default_ear}, g \in GazeValues :
          CallProcessFrame(f, le, default_ear, g, -60, -30)
    \/ CallClearHistory

SpecGaze == Init /\ [][NextGaze]_vars

\* draw_virtual_eyes called on its own, on any sequence of EAR pairs.
CallDrawVirtualEyes(le, re) ==
    /\ DetectEyeState(WinkFields, le, re).left_wink_counter <= MaxCount
    /\ DetectEyeState(WinkFields, le, re).right_wink_counter <= MaxCount
    /\ DrawVirtualEyesCall(le, re, gaze_pos, left_brow_height, right_brow_height)
    /\ left_ear' = le /\ right_ear' = re
    /\ last_call' = "draw_virtual_eyes"
    /\ UNCHANGED <<pc, now, face, gaze_direction, gaze_pos, left_brow_height,
                   right_brow_height, blinkVars, gazeVars, visualization_mode, recVars,
                   amVars, frameObs, was_recording, keyObs>>

NextDraw == \E le \in EarValues, re \in EarValues : CallDrawVirtualEyes(le, re)

SpecDraw == Init /\ [][NextDraw]_vars

\* get_eyebrow_height called for the two eyes, as process_frame does, on any
\* pair of eyebrow offsets.
CallGetEyebrowHeight(ldy, rdy) ==
    /\ left_brow_height' = GetEyebrowHeight(ldy)
    /\ right_brow_height' = GetEyebrowHeight(rdy)
    /\ left_brow_offset' = ldy /\ right_brow_offset' = rdy
    /\ last_call' = "get_eyebrow_height"
    /\ UNCHANGED <<pc, now, left_ear, right_ear, face, gaze_direction, gaze_pos, eye_state,
                   drawVars, blinkVars, winkVars, gazeVars, visualization_mode, recVars,
                   amVars, evalObs, left_only_frames, right_only_frames, left_low_frames,
                   right_low_frames, left_low_seen, right_low_seen, was_recording, keyObs>>

NextBrow == \E ldy \in BrowOffsets, rdy \in BrowOffsets : CallGetEyebrowHeight(ldy, rdy)

SpecBrow == Init /\ [][NextBrow]_vars

CallUpdateAmState(client_detected, direction) ==
    /\ am_ticks < MaxTicks
    /\ StoreAmFields(UpdateAmState(AmFields, client_detected, direction, now),
                     client_detected)
    /\ face' = client_detected /\ gaze_direction' = direction
    /\ last_call' = "update_am_state"
    /\ UNCHANGED <<pc, now, left_ear, right_ear, gaze_pos, left_brow_height,
                   right_brow_height, eye_state, drawVars, blinkVars, winkVars, gazeVars,
                   visualization_mode, recVars, evalObs, frameObs, was_recording, keyObs>>

\* The oscillator with a face in every call: the clock runs until a tick is
\* due, in steps of 20 or 40 ms, so ticks are 40 or 60 ms apart and some
\* calls come too early.
NextAmFace ==
    \/ \E dt \in {AM_FRAME_INTERVAL \div 2, AM_FRAME_INTERVAL} :
          now - am_last_update < AM_FRAME_INTERVAL /\ Advance(dt)
    \/ CallUpdateAmState(TRUE, "CENTRO")

SpecAmFace == Init /\ [][NextAmFace]_vars

\* The oscillator with and without a face: calls every 40 ms, and repeated
\* calls at the same clock reading.
NextAm ==
    \/ now = am_last_update /\ Advance(AM_FRAME_INTERVAL)
    \/ \E cd \in BOOLEAN, direction \in {"CENTRO", "IZQUIERDA_ARRIBA"} :
          CallUpdateAmState(cd, IF cd THEN direction ELSE "NO_DETECTADO")

SpecAm == Init /\ [][NextAm]_vars

\* The gate of the oscillator: the clock moves by 20 or 40 ms at any moment up
\* to MaxTime and calls come at any clock reading, with and without a face.
NextAmGate ==
    \/ \E dt \in {AM_FRAME_INTERVAL \div 2, AM_FRAME_INTERVAL} :
          now + dt <= MaxTime /\ Advance(dt)
    \/ \E cd \in BOOLEAN, direction \in {"CENTRO", "IZQUIERDA_ARRIBA"} :
          CallUpdateAmState(cd, IF cd THEN direction ELSE "NO_DETECTADO")

SpecAmGate == Init /\ [][NextAmGate]_vars

CallStartRecording(d) ==
    /\ is_recording \/ sessions < MaxSessions
    /\ (now % max_recording_time) + d <= MaxRecTime
    /\ StoreRecFields(StartRecording(RecFields, now, d))
    /\ now' = IF is_recording THEN now ELSE now + d
    /\ last_call' = "start_recording" /\ was_recording' = is_recording
    /\ UNCHANGED <<pc, frameVars, eye_state, drawVars, blinkVars, winkVars, gazeVars,
                   visualization_mode, amVars, evalObs, frameObs, keyObs>>

CallStopRecording(json_ok, mp4_ok) ==
    /\ StoreRecFields(StopRecording(RecFields, now, json_ok, mp4_ok))
    /\ last_call' = "stop_recording" /\ was_recording' = is_recording
    /\ UNCHANGED <<pc, now, frameVars, eye_state, drawVars, blinkVars, winkVars, gazeVars,
                   visualization_mode, amVars, evalObs, frameObs, keyObs>>

CallCaptureFrame(json_ok, mp4_ok) ==
    /\ StoreRecFields(CaptureFrame(RecFields, now, visualization_mode, left_ear, right_ear,
                                   gaze_direction, gaze_pos, json_ok, mp4_ok))
    /\ last_call' = "capture_frame_for_recording" /\ was_recording' = is_recording
    /\ UNCHANGED <<pc, now, frameVars, eye_state, drawVars, blinkVars, winkVars, gazeVars,
                   visualization_mode, amVars, evalObs, frameObs, keyObs>>

\* The clock of the recorder runs in steps of 2/150 s and 1/30 s through a
\* window of MaxRecTime, and may jump once by max_recording_time into a
\* second window.
RecSteps == {2, frame_interval}
AdvanceRec ==
    \/ \E dt \in RecSteps :
          (now % max_recording_time) + dt <= MaxRecTime /\ Advance(dt)
    \/ now < max_recording_time /\ Advance(max_recording_time)

\* The recorder under any order of start, stop, capture and clock steps.
NextRec ==
    \/ AdvanceRec
    \/ \E d \in {0, 1} : CallStartRecording(d)
    \/ CallStopRecording(TRUE, TRUE)
    \/ CallCaptureFrame(TRUE, TRUE)

SpecRec == Init /\ [][NextRec]_vars

\* The recorder with artifact writes that succeed or fail: calls 1/30 s apart
\* within one window of MaxRecTime.
NextRecFail ==
    \/ (now % max_recording_time) + frame_interval <= MaxRecTime /\ Advance(frame_interval)
    \/ CallStartRecording(0)
    \/ \E json_ok \in BOOLEAN, mp4_ok \in BOOLEAN : CallStopRecording(json_ok, mp4_ok)
    \/ \E json_ok \in BOOLEAN, mp4_ok \in BOOLEAN : CallCaptureFrame(json_ok, mp4_ok)

SpecRecFail == Init /\ [][NextRecFail]_vars

\* ======================= claims =======================

\* C1: in the per-frame pipeline a wink state is reached only after the eye has
\* been closed alone (EAR < 0.18, other eye >= 0.18) in at least 2 consecutive
\* frames; one such frame after an open-eyed frame never gives a wink.
C1_WinkNeedsTwoFrames ==
    pc = "capture" =>
        /\ (eye_state = "GUINANDO_IZQUIERDO" => left_only_frames >= consecutive_frames)
        /\ (eye_state = "GUINANDO_DERECHO" => right_only_frames >= consecutive_frames)

\* C2: after two consecutive evaluations with the left eye alone closed the
\* returned state is GUINANDO_IZQUIERDO, and it stays so while the pattern
\* lasts; during a run of the reversed pattern it is never returned.
C2_LeftWinkAfterTwoEvals ==
    /\ (left_only_evals >= 2 => eye_state = "GUINANDO_IZQUIERDO")
    /\ (right_only_evals >= 1 => eye_state # "GUINANDO_IZQUIERDO")
C2_Witness ==
    /\ left_only_evals >= 3
    /\ eye_state = "GUINANDO_IZQUIERDO"
    /\ left_ear < wink_threshold /\ right_ear >= wink_threshold

\* C3: an evaluation with both EARs < 0.18 returns AMBOS_CERRADOS with
\* both_eyes_closed set and both wink flags cleared, whatever the counters and
\* flags were before.
C3_BothClosedOverrides ==
    (eye_state # "NONE" /\ left_ear < wink_threshold /\ right_ear < wink_threshold) =>
        /\ eye_state = "AMBOS_CERRADOS"
        /\ both_eyes_closed /\ ~left_winking /\ ~right_winking
\* both closed, evaluated right after an established left wink (its counter
\* is still there)
C3_Witness ==
    /\ left_ear < wink_threshold /\ right_ear < wink_threshold
    /\ eye_state = "AMBOS_CERRADOS"
    /\ left_wink_counter >= consecutive_frames

\* C4: at most one of both_eyes_closed, left_winking, right_winking is true.
C4_FlagsExclusive ==
    /\ ~(both_eyes_closed /\ left_winking)
    /\ ~(both_eyes_closed /\ right_winking)
    /\ ~(left_winking /\ right_winking)
\* a left wink has just been established: its flag stands alone
C4_Witness ==
    /\ left_winking /\ eye_state = "GUINANDO_IZQUIERDO"
    /\ left_only_evals = consecutive_frames

\* What process_frame may do to one eye's total, given the run length before
\* the frame.
BlinkDelta(ear, run) ==
    IF ear >= blink_threshold /\ run >= consecutive_frames THEN 1 ELSE 0

\* C5 as stated: per eye, the total grows by exactly 1 on the first frame with
\* EAR >= 0.20 after a run of >= 2 consecutive frames with EAR < 0.20 (every
\* frame of the loop counted, with the EAR process_frame returns for it), and
\* changes at no other time during frame processing.
C5_BlinkPerRun ==
    [][ /\ (pc = "frame" =>
              /\ left_blink_total' = left_blink_total + BlinkDelta(left_ear', left_low_frames)
              /\ right_blink_total' = right_blink_total + BlinkDelta(right_ear', right_low_frames))
        /\ (pc \in {"am", "draw", "capture"} =>
              UNCHANGED <<left_blink_total, right_blink_total>>) ]_vars

\* C5 amended: the same with only the frames that have a face counted; a frame
\* without a face changes neither total and neither extends nor ends a run.
C5_BlinkPerDetectedRun ==
    [][ /\ (pc = "frame" /\ face' =>
              /\ left_blink_total' = left_blink_total + BlinkDelta(left_ear', left_low_seen)
              /\ right_blink_total' = right_blink_total + BlinkDelta(right_ear', right_low_seen))
        /\ (pc = "frame" /\ ~face' =>
              UNCHANGED <<left_blink_total, right_blink_total>>)
        /\ (pc \in {"am", "draw", "capture"} =>
              UNCHANGED <<left_blink_total, right_blink_total>>) ]_vars
\* the third frame reopens the left eye after two detected frames below the
\* threshold, and the total has just become 1
C5_Witness ==
    /\ pc = "am" /\ face /\ now = 3 * AM_FRAME_INTERVAL
    /\ left_ear >= blink_threshold
    /\ left_blink_total = 1 /\ left_blink_counter = 0

\* The triangle wave of the claim after k accepted ticks: 2 per tick up to 100
\* in 50 ticks, 2 per tick down to 0 in 50 ticks, period 100.
Triangle(k) ==
    LET m == k % 100
    IN  IF m <= 50 THEN 2 * m ELSE 200 - 2 * m

\* C6: from the initial oscillator state, with a face in every accepted tick,
\* openness follows the triangle wave of step 2 and period exactly 100 ticks
\* (50 up to 100, 50 down to 0).
C6_TriangleWave ==
    /\ am_openness = Triangle(am_ticks)
    /\ am_open_dir = (IF am_ticks % 100 < 50 THEN 1 ELSE -1)
\* two full periods done
C6_Witness ==
    /\ am_ticks = 200 /\ am_openness = 0 /\ am_open_dir = 1
    /\ last_call = "update_am_state"

AmRange == am_openness >= 0 /\ am_openness <= am_max /\ am_open_dir \in {1, -1}
AmTurned == am_open_dir' = (-1) * am_open_dir
AmTickAccepted == am_last_update' # am_last_update

\* C7 as stated: openness stays in [0, 100], the direction is +1 or -1, and
\* the direction changes sign in exactly the accepted ticks after which
\* openness is 0 or 100, with and without a face.
C7_TurnsExactlyAtBounds ==
    /\ []AmRange
    /\ [][ /\ (AmTickAccepted => (AmTurned <=> am_openness' \in {0, am_max}))
           /\ (~AmTickAccepted => UNCHANGED <<am_openness, am_open_dir>>) ]_vars

\* C7 amended: the same for the accepted ticks with a face; an accepted tick
\* without a face sets openness to 0 and leaves the direction as it was.
C7_TurnsAtBoundsWithFace ==
    /\ []AmRange
    /\ [][ /\ (AmTickAccepted /\ face' => (AmTurned <=> am_openness' \in {0, am_max}))
           /\ (AmTickAccepted /\ ~face' => am_openness' = 0 /\ UNCHANGED am_open_dir)
           /\ (~AmTickAccepted => UNCHANGED <<am_openness, am_open_dir>>) ]_vars
\* a tick without a face has just forced openness to 0 on the way down: the
\* direction is still -1
C7_Witness ==
    /\ last_call = "update_am_state" /\ ~face /\ am_last_update = now
    /\ am_openness = 0 /\ am_open_dir = -1

\* C8: while Recording, consecutive samples are at least capture_interval
\* apart whatever the call rate, and the i-th sample is no earlier than i
\* intervals after the start, so the samples of the first T seconds number
\* at most T * 30 (60 for 2 s).
C8_CaptureRate ==
    is_recording =>
        /\ \A i \in 1..(Len(animation_frames) - 1) :
              animation_frames[i + 1].timestamp - animation_frames[i].timestamp
                  >= frame_interval
        /\ \A i \in 1..Len(animation_frames) :
              animation_frames[i].timestamp >= i * frame_interval
        /\ Len(animation_frames) * frame_interval <= now - recording_start_time
\* three samples held, and the clock has moved less than an interval since the
\* last one: a call now is too early
C8_Witness ==
    /\ is_recording /\ Len(animation_frames) >= 3
    /\ now > last_frame_time /\ now - last_frame_time < frame_interval

Sessions(writes) == {writes[i].session : i \in 1..Len(writes)}
\* the last write of these is the one of the current session
FlushedOnce(writes) ==
    /\ Len(writes) > 0
    /\ writes[Len(writes)].session = sessions
    /\ Cardinality({i \in 1..Len(writes) : writes[i].session = sessions}) = 1

\* C9: a session left running becomes Idle at the first capture call with
\* now - start_time > 60 s and not at an earlier one, and it is flushed exactly
\* once: no session has two log writes or two video writes, whatever capture
\* and stop calls follow.
C9_AutoStopFlushesOnce ==
    /\ (last_call = "capture_frame_for_recording" /\ was_recording) =>
          /\ is_recording <=> ~(now - recording_start_time > max_recording_time)
          /\ (~is_recording /\ Len(animation_frames) > 0) =>
                FlushedOnce(json_writes) /\ FlushedOnce(mp4_writes)
    /\ Cardinality(Sessions(json_writes)) = Len(json_writes)
    /\ Cardinality(Sessions(mp4_writes)) = Len(mp4_writes)
\* a STOP_RECORDING after the auto-stop of a session with samples: still one
\* log and one video
C9_Witness ==
    /\ last_call = "stop_recording" /\ ~was_recording /\ ~is_recording
    /\ sessions = 1
    /\ now - recording_start_time > max_recording_time
    /\ Len(json_writes) = 1 /\ Len(mp4_writes) = 1
    /\ json_writes[1].duration > max_recording_time
    /\ json_writes[1].frames[Len(json_writes[1].frames)].timestamp <= MaxRecTime

\* C10: while Recording the log buffer and the video buffer have the same
\* length, and every flush hands as many frames to the video writer as the
\* log counts in total_frames.
C10_LogMatchesVideo ==
    /\ is_recording => Len(animation_frames) = Len(video_frames)
    /\ Len(json_writes) = Len(mp4_writes)
    /\ \A i \in 1..Len(json_writes) :
          /\ json_writes[i].session = mp4_writes[i].session
          /\ json_writes[i].total_frames = Len(json_writes[i].frames)
          /\ Len(mp4_writes[i].frames) = json_writes[i].total_frames
\* the second session is recording, the first was flushed with samples
C10_Witness ==
    /\ is_recording /\ sessions = 2
    /\ Len(video_frames) >= 1
    /\ Len(json_writes) = 1 /\ json_writes[1].total_frames >= 2

\* C11: the samples of a session are never dropped without a flush: once a
\* session that captured samples is over (STOP_RECORDING, the auto-stop) or the
\* run loop has ended with the session still Recording, the log write and the
\* video write of that session have been attempted.
C11_FlushBeforeDrop ==
    (Len(animation_frames) > 0 /\ (~is_recording \/ pc = "done")) =>
        /\ sessions \in Sessions(json_writes)
        /\ sessions \in Sessions(mp4_writes)

\* The rotation of the claim, by the number of CYCLE_MODE commands so far.
ModeRing == <<"RECTANGULOS", "REDONDEADOS", "AM">>

\* C17: the mode is one of the three, starts as RECTANGULOS, moves one place
\* round RECTANGULOS -> REDONDEADOS -> AM -> RECTANGULOS with each CYCLE_MODE
\* (three restore it) and is changed by nothing else.
C17_ModeCycle ==
    /\ visualization_mode \in Modes
    /\ visualization_mode = ModeRing[(mode_cycles % 3) + 1]
\* three CYCLE_MODE commands and a recording session in between: the mode is
\* RECTANGULOS again
C17_Witness ==
    /\ mode_cycles = 3 /\ visualization_mode = "RECTANGULOS"
    /\ sessions >= 1 /\ pc = "frame"

\* C12: stop_recording called while Recording leaves the recorder Idle
\* (is_recording false, video buffer empty, file name cleared) whether the log
\* write and the video write succeed or fail, and the video write of the
\* session is attempted also when its log write failed.
C12_StopEndsIdle ==
    (last_call = "stop_recording" /\ was_recording) =>
        /\ ~is_recording /\ video_frames = <<>> /\ recording_filename = None
        /\ Len(mp4_writes) = Len(json_writes)
        /\ (Len(animation_frames) > 0 =>
              /\ json_writes[Len(json_writes)].session = sessions
              /\ mp4_writes[Len(json_writes)].session = sessions)
\* the stop of a session with samples whose log write failed: its video write
\* was attempted, and succeeded
C12_Witness ==
    /\ last_call = "stop_recording" /\ was_recording /\ ~is_recording
    /\ Len(animation_frames) >= 2
    /\ Len(json_writes) = 1 /\ ~json_writes[1].ok
    /\ Len(mp4_writes) = 1 /\ mp4_writes[1].ok /\ mp4_writes[1].session = sessions

\* C13: start_recording while Recording and stop_recording while Idle change
\* nothing of the recorder (start time, last capture time, buffers, file name,
\* artifacts written), so repeating either command is the same as issuing it
\* once.
C13_RedundantCommands ==
    [][ /\ (last_call' = "start_recording" /\ is_recording => UNCHANGED recVars)
        /\ (last_call' = "stop_recording" /\ ~is_recording => UNCHANGED recVars) ]_vars
\* a start while Recording, with samples held and the clock past the last
\* capture: the session goes on as it was
C13_Witness ==
    /\ last_call = "start_recording" /\ was_recording /\ is_recording
    /\ Len(animation_frames) >= 2 /\ Len(video_frames) >= 2
    /\ now > last_frame_time /\ last_frame_time > recording_start_time

\* The samples pushed since the last CLEAR_HISTORY, and the last n of a sequence.
Pushed == SubSeq(gaze_fed, gaze_cleared + 1, Len(gaze_fed))
LastOf(s, n) == SubSeq(s, Len(s) - n + 1, Len(s))

\* C14: under any order of gaze updates, frames without a face and
\* CLEAR_HISTORY the window never holds more than 3 samples, it holds the most
\* recent min(k, 3) of the k samples pushed since the last clear, oldest
\* first, and it is not empty after a gaze update (when the mean is taken).
C14_WindowIsLastThree ==
    /\ Len(eye_movement_history) <= 3
    /\ eye_movement_history = LastOf(Pushed, Min(Len(Pushed), 3))
    /\ (last_call = "process_frame" /\ face => Len(eye_movement_history) >= 1)
\* a fourth sample has evicted the first, which differed from the second
C14_Witness ==
    /\ last_call = "process_frame" /\ face
    /\ Len(Pushed) = 4 /\ Pushed[1] # Pushed[2]
    /\ eye_movement_history = <<Pushed[2], Pushed[3], Pushed[4]>>

\* The label the claim gives to a mean of sx / n, sy / n (hundredths).
LabelOf(sx, sy, n) ==
    LET horizontal == IF sx < 42 * n THEN "IZQUIERDA"
                      ELSE IF sx > 58 * n THEN "DERECHA" ELSE "CENTRO"
    IN  IF sy < 42 * n THEN horizontal \o "_ARRIBA"
        ELSE IF sy > 58 * n THEN horizontal \o "_ABAJO"
        ELSE horizontal
NineLabels == {"CENTRO", "CENTRO_ARRIBA", "CENTRO_ABAJO",
               "IZQUIERDA", "IZQUIERDA_ARRIBA", "IZQUIERDA_ABAJO",
               "DERECHA", "DERECHA_ARRIBA", "DERECHA_ABAJO"}

\* C15: the label of a gaze update is that of the mean of the window, with
\* strict thresholds 0.42 and 0.58 on x and on y, one of 9 labels; so three or
\* more samples in a row with x = 0.30 give a label with IZQUIERDA whatever
\* came before.
C15_LabelOfMean ==
    (last_call = "process_frame" /\ face) =>
        /\ gaze_direction \in NineLabels
        /\ gaze_direction = LabelOf(SumX(eye_movement_history), SumY(eye_movement_history),
                                    Len(eye_movement_history))
        /\ gaze_pos[1] * Len(eye_movement_history) = SumX(eye_movement_history) * gaze_pos[3]
        /\ gaze_pos[2] * Len(eye_movement_history) = SumY(eye_movement_history) * gaze_pos[3]
        /\ (Len(gaze_fed) >= 3 /\ (\A i \in 1..3 : LastOf(gaze_fed, 3)[i][1] = 30)
               => gaze_direction \in {"IZQUIERDA", "IZQUIERDA_ARRIBA", "IZQUIERDA_ABAJO"})
\* a sample far to the right, then three at x = 0.30
C15_Witness ==
    /\ last_call = "process_frame" /\ face
    /\ Len(gaze_fed) = 4 /\ gaze_cleared = 0
    /\ gaze_fed[1][1] = 70
    /\ \A i \in 2..4 : gaze_fed[i][1] = 30
    /\ gaze_direction = "IZQUIERDA"

\* C16: a frame without a face returns the defaults (EARs 0.3, gaze position
\* (0.5, 0.5), NO_DETECTADO, brows 0.5) whatever came before, and leaves the
\* blink run counters, the blink totals and the smoothing window as they were.
C16_NoFaceDefaults ==
    [][ (last_call' = "process_frame" /\ ~face') =>
            /\ left_ear' = 300 /\ right_ear' = 300
            /\ gaze_pos'[1] = 50 * gaze_pos'[3] /\ gaze_pos'[2] = 50 * gaze_pos'[3]
            /\ gaze_direction' = "NO_DETECTADO"
            /\ 2 * left_brow_height' = brow_span /\ 2 * right_brow_height' = brow_span
            /\ UNCHANGED <<left_blink_counter, right_blink_counter, left_blink_total,
                           right_blink_total, eye_movement_history>> ]_vars
\* a frame without a face in the middle of the second blink run, with a window
\* of samples off centre and after a raised left brow
C16_Witness ==
    /\ last_call = "process_frame" /\ ~face
    /\ left_blink_counter = 1 /\ left_blink_total = 1
    /\ Len(eye_movement_history) >= 2 /\ SumX(eye_movement_history) < 42 * Len(eye_movement_history)
    /\ left_brow_offset = -60
    /\ left_ear = 300 /\ gaze_pos = <<50, 50, 1>> /\ left_brow_height = 20

\* The raw eyebrow-to-eye distance of a measurement, in pixels.
BrowDistance(dy) == IF dy < 0 THEN -dy ELSE dy

\* C18: the elevation lies in [0, 1] (0..40 fortieths), is 0 for every
\* distance <= 20 and 1 for every distance >= 60, and of two measurements the
\* one with the larger distance never has the smaller elevation.
C18_BrowMonotonic ==
    last_call = "get_eyebrow_height" =>
        LET dl == BrowDistance(left_brow_offset)
            dr == BrowDistance(right_brow_offset)
        IN  /\ left_brow_height \in 0..40 /\ right_brow_height \in 0..40
            /\ (dl <= 20 => left_brow_height = 0) /\ (dl >= 60 => left_brow_height = 40)
            /\ (dr <= 20 => right_brow_height = 0) /\ (dr >= 60 => right_brow_height = 40)
            /\ (dl <= dr => left_brow_height <= right_brow_height)
            /\ (dr <= dl => right_brow_height <= left_brow_height)
\* one pixel inside each end of the range: 1/40 and 39/40
C18_Witness ==
    /\ last_call = "get_eyebrow_height"
    /\ left_brow_offset = -21 /\ left_brow_height = 1
    /\ right_brow_offset = -59 /\ right_brow_height = 39

\* The frame of C19 has just been drawn: a face with both EARs 0.30, both
\* eyebrow distances 30 px and a mean gaze of (0.5, 0.5), in RECTANGULOS mode.
OpenFaceDrawn ==
    /\ pc = "capture" /\ face /\ visualization_mode = "RECTANGULOS"
    /\ left_ear = 300 /\ right_ear = 300
    /\ BrowDistance(left_brow_offset) = 30 /\ BrowDistance(right_brow_offset) = 30
    /\ gaze_pos[1] = 50 * gaze_pos[3] /\ gaze_pos[2] = 50 * gaze_pos[3]

\* Two boxes of full height (about 86 px, not half of it), centred on
\* (150, 200) and (300, 200), with cuts of the same depth.
FullBoxesAtBase ==
    /\ left_height \in 85..87 /\ right_height \in 85..87
    /\ left_rect.mode = "RECTANGULOS" /\ right_rect.mode = "RECTANGULOS"
    /\ left_rect.cx = 150 /\ left_rect.cy = 200
    /\ right_rect.cx = 300 /\ right_rect.cy = 200
    /\ left_rect.x1 + left_rect.x2 = 2 * 150 /\ left_rect.y1 + left_rect.y2 = 2 * 200
    /\ right_rect.x1 + right_rect.x2 = 2 * 300 /\ right_rect.y1 + right_rect.y2 = 2 * 200
    /\ left_rect.diagonal_cut = right_rect.diagonal_cut

\* C19 as stated: for that frame the render gives two non-halved boxes of
\* about 86 px at the base positions, each with a cut of about 15 px.
C19_RenderOpenFace ==
    OpenFaceDrawn => FullBoxesAtBase /\ left_rect.diagonal_cut \in 14..16

\* C19 amended: the same boxes, of 85 px, each with a cut of 7 px: the
\* elevation for 30 px is 0.25 and the cut is int(0.25 * 30).
C19_RenderOpenFaceCutSeven ==
    OpenFaceDrawn =>
        /\ FullBoxesAtBase /\ left_height = 85
        /\ left_rect.diagonal_cut = 7
        /\ left_rect.points = << <<110, 242>>, <<190, 242>>, <<183, 158>>, <<110, 165>> >>
        /\ right_rect.points = << <<260, 242>>, <<340, 242>>, <<340, 165>>, <<267, 158>> >>
\* the open-eyed frame comes right after two frames with the left eye closed
\* (the left blink total has just become 1), and it is drawn at full height
C19_Witness ==
    /\ OpenFaceDrawn /\ left_blink_total = 1 /\ now = 3 * AM_FRAME_INTERVAL
    /\ left_height = 85 /\ right_height = 85 /\ left_rect.diagonal_cut = 7

\* C20: after an evaluation with both EARs < 0.18 both wink counters are 0, so
\* a one-eye closure after it needs 2 fresh evaluations to become a wink.
C20_BothClosedClearsCounters ==
    (eye_state # "NONE" /\ left_ear < wink_threshold /\ right_ear < wink_threshold) =>
        /\ left_wink_counter = 0 /\ right_wink_counter = 0

\* The full height of a box: clamp(8, 100, EAR / 0.35 * 100), as a whole number.
FullHeight(ear) ==
    LET h == (ear * 100) \div 350
    IN  IF h < 8 THEN 8 ELSE IF h > 100 THEN 100 ELSE h

\* C21: in every draw_virtual_eyes call the left box is halved exactly when the
\* state evaluated in that call is AMBOS_CERRADOS or GUINANDO_IZQUIERDO, the
\* right box exactly when it is AMBOS_CERRADOS or GUINANDO_DERECHO; a box that
\* is not halved has the full height.
C21_HalvedIffState ==
    last_call = "draw_virtual_eyes" =>
        /\ left_height = IF eye_state \in {"AMBOS_CERRADOS", "GUINANDO_IZQUIERDO"}
                         THEN FullHeight(left_ear) \div 2 ELSE FullHeight(left_ear)
        /\ right_height = IF eye_state \in {"AMBOS_CERRADOS", "GUINANDO_DERECHO"}
                          THEN FullHeight(right_ear) \div 2 ELSE FullHeight(right_ear)

\* clamp(v, 0, 40), the numerator of the specified elevation formula.
ClampSpan(v) == IF v < 0 THEN 0 ELSE IF v > 40 THEN 40 ELSE v

\* C22 as stated: the elevation is clamp((eyebrow_y - eye_y) - 20, 0, 40) / 40
\* on the signed difference eyebrow minus eye.
C22_SignedFormula ==
    last_call = "get_eyebrow_height" =>
        /\ left_brow_height = ClampSpan(left_brow_offset - 20)
        /\ right_brow_height = ClampSpan(right_brow_offset - 20)

\* C22 amended: the same formula on the absolute difference |eyebrow_y - eye_y|.
C22_AbsoluteFormula ==
    last_call = "get_eyebrow_height" =>
        /\ left_brow_height = ClampSpan(BrowDistance(left_brow_offset) - 20)
        /\ right_brow_height = ClampSpan(BrowDistance(right_brow_offset) - 20)
\* a brow 40 px above the eye gives 0.5, one 30 px below it gives 0.25
C22_Witness ==
    /\ last_call = "get_eyebrow_height"
    /\ left_brow_offset = -40 /\ left_brow_height = 20
    /\ right_brow_offset = 30 /\ right_brow_height = 10

\* C23: an accepted tick without a face sets openness to 0 and leaves
\* am_open_dir and am_phase as they were (the phase is not set to 0.0); of the
\* oscillator only openness and the time of the last tick change.
C23_NoFaceTickKeepsPhase ==
    [][ (last_call' = "update_am_state" /\ ~face' /\ now - am_last_update >= 6) =>
            /\ am_openness' = 0
            /\ am_open_dir' = am_open_dir /\ am_phase' = am_phase
            /\ am_last_update' = now ]_vars
\* a tick without a face after ticks with the gaze to the left: openness is 0,
\* the phase is still -0.8
C23_Witness ==
    /\ last_call = "update_am_state" /\ ~face /\ am_last_update = now
    /\ am_ticks = 3 /\ am_openness = 0 /\ am_open_dir = 1 /\ am_phase = -8

\* C24: a call less than 40 ms after the last accepted tick changes nothing of
\* the oscillator, two accepted ticks are at least 40 ms apart, and the number
\* of ticks is bounded by the elapsed time, however often the function is called.
C24_GateDropsEarlyCalls ==
    /\ [](am_ticks * 6 <= now)
    /\ [][ /\ (last_call' = "update_am_state" /\ now - am_last_update < 6 =>
                 UNCHANGED <<am_openness, am_open_dir, am_phase, am_last_update>>)
           /\ (am_last_update' # am_last_update =>
                 am_last_update' - am_last_update >= 6) ]_vars
\* a call 20 ms after the second tick, with the gaze to the left: the
\* oscillator is as the tick left it
C24_Witness ==
    /\ last_call = "update_am_state" /\ face /\ gaze_direction = "IZQUIERDA_ARRIBA"
    /\ now - am_last_update = 3
    /\ am_ticks = 2 /\ am_openness = 4 /\ am_phase = 0

\* C25: RESET_COUNTERS sets both blink totals to 0 and changes nothing else
\* (run counters, wink counters and flags, gaze window, mode, recorder), so a
\* run of >= 2 frames in progress at the reset still adds 1 to the total when
\* the eye reopens.
C25_ResetOnlyTotals ==
    [][ /\ (pc = "key" /\ last_key' = "r" =>
              /\ left_blink_total' = 0 /\ right_blink_total' = 0
              /\ UNCHANGED <<left_blink_counter, right_blink_counter, winkVars,
                             eye_movement_history, visualization_mode, recVars, amVars>>)
        /\ (pc = "frame" /\ face' /\ last_key = "r" =>
              /\ left_blink_total' = BlinkDelta(left_ear', left_low_seen)
              /\ right_blink_total' = BlinkDelta(right_ear', right_low_seen)) ]_vars
\* the reset came with the left eye closed for three frames and one blink
\* already counted for each eye; the next frame reopens the left eye and its
\* total is 1, the right total stays 0
C25_Witness ==
    /\ pc = "am" /\ last_key = "r" /\ face
    /\ now = 6 * AM_FRAME_INTERVAL
    /\ left_ear >= blink_threshold /\ left_blink_counter = 0
    /\ left_blink_total = 1 /\ right_blink_total = 0
    /\ right_blink_counter = 0

\* C26: under any sequence of detect_eye_state calls at most one of
\* left_wink_counter and right_wink_counter is non-zero.
C26_OneWinkCounterAtMost == ~(left_wink_counter # 0 /\ right_wink_counter # 0)
\* a debounced left wink is followed by a closure of the right eye alone: the
\* right counter starts and the left one is back at 0, the wink flag still set
C26_Witness ==
    /\ right_wink_counter = 1 /\ left_wink_counter = 0
    /\ left_winking /\ eye_state = "NORMAL"
    /\ right_only_evals = 1

\* C27: after every accepted tick with a face am_openness is even and in
\* [0, 100], openness 0 goes with direction +1 and openness 100 with direction
\* -1; when a tick without a face has forced openness to 0 while the direction
\* was -1, the first tick with a face leaves openness at 0 and turns the
\* direction to +1, and the second one raises openness.
C27_FaceTickRange ==
    /\ [](am_tick_face =>
            /\ am_openness \in 0..am_max /\ am_openness % 2 = 0
            /\ (am_openness = 0 => am_open_dir = 1)
            /\ (am_openness = am_max => am_open_dir = -1))
    /\ [][ AmTickAccepted /\ am_tick_face' =>
             /\ (am_openness = 0 /\ am_open_dir = -1 =>
                    am_openness' = 0 /\ am_open_dir' = 1)
             /\ (am_openness = 0 /\ am_open_dir = 1 =>
                    am_openness' = am_step /\ am_open_dir' = 1) ]_vars
\* 50 ticks with a face reach 100 and turn the direction, tick 51 without a
\* face forces 0, tick 52 with a face has only turned the direction
C27_Witness ==
    /\ am_ticks = 52 /\ am_tick_face
    /\ am_openness = 0 /\ am_open_dir = 1
    /\ am_last_update = now

\* the timestamps of a log: strictly increasing, the first at least one
\* capture interval after the start, none past the time limit
TimestampsInOrder(frames) ==
    /\ (Len(frames) > 0 => frames[1].timestamp >= frame_interval)
    /\ \A i \in 1..Len(frames) : frames[i].timestamp <= max_recording_time
    /\ \A i \in 1..(Len(frames) - 1) : frames[i].timestamp < frames[i + 1].timestamp

\* C28: within one session the timestamps of the log entries are strictly
\* increasing, the first one is at least frame_interval (1/30 s) after the
\* session start and none exceeds max_recording_time (60 s), in the buffer and
\* in every log artifact written.
C28_TimestampsInOrder ==
    /\ TimestampsInOrder(animation_frames)
    /\ \A i \in 1..Len(json_writes) : TimestampsInOrder(json_writes[i].frames)
\* the first session took its only sample exactly at the limit and was
\* stopped by the next call; the second one has two samples, the first of
\* them exactly one capture interval after its start
C28_Witness ==
    /\ is_recording /\ last_call = "capture_frame_for_recording"
    /\ Len(json_writes) = 1 /\ Len(json_writes[1].frames) = 1
    /\ json_writes[1].frames[1].timestamp = max_recording_time
    /\ Len(animation_frames) = 2
    /\ animation_frames[1].timestamp = frame_interval

\* every sample of an artifact was taken by the session that wrote it
OwnSamplesOnly(writes) ==
    \A i \in 1..Len(writes) : \A j \in 1..Len(writes[i].frames) :
        writes[i].frames[j].session = writes[i].session

\* C29: sessions are isolated: start_recording from Idle empties the log
\* buffer and the video buffer, capture_frame_for_recording while Idle changes
\* nothing, and every artifact holds only samples of the session that wrote
\* it, although stop_recording leaves the log entries in memory.
C29_SessionsIsolated ==
    /\ [](OwnSamplesOnly(json_writes) /\ OwnSamplesOnly(mp4_writes))
    /\ [][ /\ (last_call' = "start_recording" /\ ~is_recording =>
                  animation_frames' = <<>> /\ video_frames' = <<>>)
           /\ (last_call' = "capture_frame_for_recording" /\ ~is_recording =>
                  UNCHANGED recVars)
           /\ (last_call' = "stop_recording" /\ is_recording =>
                  animation_frames' = animation_frames /\ video_frames' = <<>>) ]_vars
\* two sessions written, the first with two samples and the second with one;
\* the log buffer still holds the second session's sample after the stop
C29_Witness ==
    /\ ~is_recording /\ last_call = "stop_recording"
    /\ Len(json_writes) = 2 /\ Len(mp4_writes) = 2
    /\ Len(json_writes[1].frames) = 2 /\ Len(json_writes[2].frames) = 1
    /\ Len(animation_frames) = 1 /\ video_frames = <<>>

\* C30: a session that ends, by stop_recording or by the time limit, before
\* any sample was taken writes neither the log nor the video artifact and
\* still goes back to Idle.
C30_EmptySessionWritesNothing ==
    [][ (/\ is_recording /\ animation_frames = <<>>
         /\ \/ last_call' = "stop_recording"
            \/ last_call' = "capture_frame_for_recording" /\ OverLimit(RecFields, now))
        => /\ ~is_recording'
           /\ UNCHANGED <<json_writes, mp4_writes>>
           /\ video_frames' = <<>> /\ recording_filename' = None ]_vars
\* the only session so far was stopped 2/150 s after its start: no artifact
C30_Witness ==
    /\ last_call = "stop_recording" /\ was_recording /\ ~is_recording
    /\ sessions = 1 /\ now - recording_start_time = 2
    /\ animation_frames = <<>>
    /\ json_writes = <<>> /\ mp4_writes = <<>>

====
